---- MODULE Spec2Model ----
(***************************************************************************)
(* Double-DQN agent (src/agent.py): the Agent class with select_action,    *)
(* batch_train and train.  The environment (game.Game), the replay memory  *)
(* (experience_replay.experienceReplay) and the networks (dqn.DQN) are     *)
(* imported modules whose code is not in src/; they are modelled from      *)
(* their contracts in spec.md.                                             *)
(*                                                                         *)
(* Real numbers are kept exact as integer numerators over a fixed          *)
(* denominator: epsilon in units of 1/(EPS_UNIT * eps_decay), the random   *)
(* draw in units of 1/RandDen, Q targets in units of 1/DISCOUNT_DEN.       *)
(***************************************************************************)
EXTENDS Integers, Sequences, FiniteSets, TLC

\* ---------------------------------------------------------------- bounds
\* The counters and cadences of Agent.__init__ (src/agent.py:24-27), scaled
\* down so that a run of train() can be explored to its end.
eps_decay == 2         \* self.eps_decay = 1000000
target_update == 2     \* self.target_update = 10000
num_steps == 4         \* self.num_steps = 50000000
max_episodes == 2      \* self.max_episodes = 10000
\* Grid of the pseudo-random draw random.random(): r = k / RandDen, k < RandDen.
RandDen == 2

\* ------------------------------------------------------ program constants
\* Sizes, scaled down likewise: the smallest values with which a batch holds
\* two different transitions and the memory can fill.
batch_size == 2        \* self.batch_size = 32
memory_size == 2       \* self.memory_size = 10000000
num_actions == 2       \* self.num_actions = self.game.get_n_actions()
EPS_UNIT == 10         \* epsilon endpoints are written in tenths
eps_start == 10        \* self.eps_start = 1     (10 tenths)
eps_end == 1           \* self.eps_end = 0.1     ( 1 tenth)
DISCOUNT_NUM == 99     \* self.discount = 0.99 = 99/100
DISCOUNT_DEN == 100
None == -1             \* next_state = None

\* ------------------------------------------------------------- value sets
Observations == {0, 1}            \* what game.get_input() can return after a reset or a step
Rewards == {0, 1}                 \* what game.step() can return as reward
Actions == 0 .. (num_actions - 1)

\* The parameter sets a DQN(num_actions) can hold.  Parameter set p < num_actions
\* values action (p + s) % num_actions at 1 in state s and every other action at
\* 0; parameter set num_actions values every action at 0.
ParamSpace == 0 .. num_actions

VARIABLES
    pc,                \* position in train()
    episodes,          \* number of iterations of `for i in range(max_episodes)` begun
    steps, total_reward, record_rewards,
    state, action, reward, done, next_state,
    memory,            \* the replay memory, oldest first
    primary_network, target_network,
    opt_steps,         \* number of optimizer.step() calls
    grads,             \* batch_train calls whose loss is accumulated in the primary's .grad
    bt_calls,          \* number of batch_train calls that got past the size guard
    epsilon, rand,     \* locals of select_action: epsilon numerator, the draw
    sel_steps, sel_state,   \* parameters of the select_action call in progress
    batch_data, Q_t_values, expected_Q_values, loss,   \* locals of batch_train
    result,            \* what train() returned
    \* history of the run, read by the properties only
    n_resets, n_selects, n_env_steps,   \* calls of reset_env, select_action, game.step
    n_nonterminal,     \* game.step calls that returned done = False
    select_log,        \* the step counts passed to select_action, in order
    n_stored,          \* storeExperience calls
    n_batch_train,     \* batch_train calls, the ones that return at once included
    memory_ids,        \* for each stored transition, which storeExperience call put it there
    memory_eps,        \* for each stored transition, the episode it was observed in
    chain_expect,      \* where the episode stands: the observation after reset_env,
                       \* then the next_state of the latest transition stored
    sync_steps,        \* values of steps at which the target was synchronized
    synced_params,     \* the primary's parameters at the latest synchronization
    synced_opt,        \* the value of opt_steps at the latest synchronization
    ep_sum,            \* sum of the rewards game.step returned since the last reset_env
    ep_sums            \* that sum for each episode whose game.step returned done, in order

vars == <<pc, episodes, steps, total_reward, record_rewards, state, action,
          reward, done, next_state, memory, primary_network,
          target_network, opt_steps, grads, bt_calls, epsilon, rand, batch_data, Q_t_values,
          expected_Q_values, loss, result, n_resets, n_selects, n_env_steps,
          n_nonterminal, select_log, n_stored, n_batch_train, memory_ids, memory_eps, chain_expect, sync_steps, synced_params, synced_opt,
          ep_sum, ep_sums>>

trainLocals == <<episodes, steps, total_reward, record_rewards, state, action,
                 reward, done, next_state>>
batchLocals == <<batch_data, Q_t_values, expected_Q_values, loss>>
networks == <<primary_network, target_network, opt_steps, grads, bt_calls>>
selectLocals == <<epsilon, rand, sel_steps, sel_state>>
envHistory == <<n_resets, n_selects, n_env_steps, n_nonterminal>>
episodeHistory == <<ep_sum, ep_sums>>
storeHistory == <<n_stored, memory_ids, memory_eps>>
syncHistory == <<sync_steps, synced_params, synced_opt>>

\* ------------------------------------------------------------ the networks
\* DQN.forward on one state: the vector of per-action values.
Forward(params, s) ==
    [a \in Actions |->
        IF params < num_actions /\ a = (params + s) % num_actions THEN 1 ELSE 0]

\* torch.argmax: index of the first maximal value.
ArgMax(v) ==
    CHOOSE a \in DOMAIN v :
        /\ \A b \in DOMAIN v : v[b] <= v[a]
        /\ \A b \in DOMAIN v : v[b] = v[a] => a <= b

\* A soft update: dst moves one parameter set towards src.
LoadStateDictSoft(dst, src) ==
    IF dst < src THEN dst + 1
    ELSE IF dst > src THEN dst - 1
    ELSE src

\* dst.load_state_dict(src.state_dict()): dst's parameters become a copy of
\* src's, whatever they were.
LoadStateDict(dst, src) == src

\* --------------------------------------------------------- replay memory
Experience(s, a, r, ns, d) ==
    [state |-> s, action |-> a, reward |-> r, next_state |-> ns, done |-> d]

number_of_experiences(mem) == Len(mem)

\* A full store that refuses the new transition instead of evicting the oldest.
storeExperienceKeepOldest(mem, e) ==
    IF Len(mem) < memory_size THEN Append(mem, e) ELSE mem

storeExperience(mem, e) ==
    IF Len(mem) < memory_size THEN Append(mem, e) ELSE Append(Tail(mem), e)

\* selectBatch(n): n independent draws among the stored transitions.
selectBatch(mem, n) == { [k \in 1 .. n |-> mem[ix[k]]] : ix \in [1 .. n -> 1 .. Len(mem)] }

\* ------------------------------------------------------------ select_action
\* Line 69, times EPS_UNIT * eps_decay.
Epsilon(s) == eps_start * eps_decay + (eps_end - eps_start) * s

\* random.random() < epsilon, for the draw k / RandDen.
Explores(k, epsNum) == k * EPS_UNIT * eps_decay < epsNum * RandDen

select_action_target(k, s, st) ==
    IF Explores(k, Epsilon(s))
    THEN Actions
    ELSE {ArgMax(Forward(target_network, st))}

\* The actions select_action can return for the draw k.
select_action(k, s, st) ==
    IF Explores(k, Epsilon(s))
    THEN Actions
    ELSE {ArgMax(Forward(primary_network, st))}

\* -------------------------------------------------------------- batch_train
RECURSIVE SumTo(_, _)
SumTo(f, n) == IF n = 0 THEN 0 ELSE f[n] + SumTo(f, n - 1)

\* Line 106: target_network(batch_states)[:, batch_actions].
QtValues(batch, target) ==
    [i \in DOMAIN batch |->
        [j \in DOMAIN batch |-> Forward(target, batch[i].state)[batch[j].action]]]

\* Line 113: torch.argmax(next_Q_t_primary_values, axis=1).
BestActions(batch, primary) ==
    [j \in DOMAIN batch |-> ArgMax(Forward(primary, batch[j].next_state))]

\* Line 113: next_Q_t_target_values[:, argmax].
NextQtValuesMax(batch, primary, target) ==
    [i \in DOMAIN batch |->
        [j \in DOMAIN batch |->
            Forward(target, batch[i].next_state)[BestActions(batch, primary)[j]]]]

\* Line 116, times DISCOUNT_DEN: batch_rewards broadcasts along the last axis.
ExpectedQValues(batch, primary, target) ==
    [i \in DOMAIN batch |->
        [j \in DOMAIN batch |->
            DISCOUNT_DEN * batch[j].reward
              + DISCOUNT_NUM * NextQtValuesMax(batch, primary, target)[i][j]]]

\* Line 119, torch.nn.MSELoss: the mean over all elements of the squared
\* difference, kept as the sum (times DISCOUNT_DEN^2) and the element count.
MSELoss(q, e) ==
    LET n == Len(q)
        sq(i, j) == (DISCOUNT_DEN * q[i][j] - e[i][j]) * (DISCOUNT_DEN * q[i][j] - e[i][j])
        row(i) == SumTo([j \in 1 .. Len(q[i]) |-> sq(i, j)], Len(q[i]))
    IN  [sum |-> SumTo([i \in 1 .. n |-> row(i)], n),
         count |-> SumTo([i \in 1 .. n |-> Len(q[i])], n)]

NoLoss == [sum |-> 0, count |-> 0]

\* ------------------------------------------------------------------- Init
\* Agent.__init__ followed by the first three lines of train().
Init ==
    /\ pc = "for"
    /\ episodes = 0
    /\ steps = 0
    /\ total_reward = 0
    /\ record_rewards = <<>>
    /\ state = None /\ action = 0 /\ reward = 0 /\ done = FALSE /\ next_state = None
    /\ memory = <<>>
    /\ primary_network \in ParamSpace
    /\ target_network \in { LoadStateDict(t, primary_network) : t \in ParamSpace }
    /\ opt_steps = 0
    /\ grads = {}
    /\ bt_calls = 0
    /\ epsilon = 0 /\ rand = 0
    /\ sel_steps = 0 /\ sel_state = None
    /\ batch_data = <<>> /\ Q_t_values = <<>> /\ expected_Q_values = <<>>
    /\ loss = NoLoss
    /\ result = <<>>
    /\ n_resets = 0 /\ n_selects = 0 /\ n_env_steps = 0 /\ n_nonterminal = 0
    /\ select_log = <<>>
    /\ n_stored = 0
    /\ n_batch_train = 0
    /\ memory_ids = <<>>
    /\ memory_eps = <<>>
    /\ chain_expect = None
    /\ sync_steps = {}
    /\ synced_params = primary_network
    /\ synced_opt = 0
    /\ ep_sum = 0 /\ ep_sums = <<>>

\* ------------------------------------------------------------------ train
\* Lines 135-137: the next episode begins.
ForEpisode ==
    /\ pc = "for"
    /\ episodes < max_episodes
    /\ episodes' = episodes + 1
    /\ state' \in Observations
    /\ chain_expect' = state'
    /\ n_resets' = n_resets + 1
    /\ ep_sum' = 0
    /\ pc' = "inc"
    /\ UNCHANGED <<steps, total_reward, record_rewards, action, reward, done,
                   next_state, memory, networks, selectLocals, batchLocals,
                   result, n_selects, n_env_steps, n_nonterminal, storeHistory,
                   syncHistory, ep_sums, n_batch_train, select_log>>

\* Line 135: range(max_episodes) is exhausted; line 188.
ForExhausted ==
    /\ pc = "for"
    /\ episodes >= max_episodes
    /\ result' = record_rewards
    /\ pc' = "returned"
    /\ UNCHANGED <<trainLocals, memory, networks, selectLocals,
                   batchLocals, envHistory, storeHistory, syncHistory,
                   episodeHistory, n_batch_train, select_log, chain_expect>>

NextStepCountSkipping(s) == s + 2

\* Line 140, steps += 1.
NextStepCount(s) == s + 1

\* Line 140.
IncSteps ==
    /\ pc = "inc"
    /\ steps' = NextStepCount(steps)
    /\ pc' = "select"
    /\ UNCHANGED <<episodes, total_reward, record_rewards, state, action, reward,
                   done, next_state, memory, networks, selectLocals,
                   batchLocals, result, envHistory, storeHistory, syncHistory,
                   episodeHistory, n_batch_train, select_log, chain_expect>>

\* Line 143, select_action lines 69-70: epsilon and the pseudo-random draw.
SelectDraw ==
    /\ pc = "select"
    /\ sel_steps' = steps /\ sel_state' = state
    /\ select_log' = Append(select_log, steps)
    /\ epsilon' = Epsilon(steps)
    /\ rand' \in 0 .. (RandDen - 1)
    /\ pc' = "select_ret"
    /\ UNCHANGED <<trainLocals, memory, networks, batchLocals, result,
                   envHistory, storeHistory, syncHistory, episodeHistory,
                   n_batch_train, chain_expect>>

\* select_action lines 70-76: the branch taken and the return to line 143.
SelectReturn ==
    /\ pc = "select_ret"
    /\ action' \in select_action(rand, sel_steps, sel_state)
    /\ epsilon' = 0 /\ rand' = 0
    /\ sel_steps' = 0 /\ sel_state' = None
    /\ n_selects' = n_selects + 1
    /\ pc' = "step"
    /\ UNCHANGED <<episodes, steps, total_reward, record_rewards, state, reward,
                   done, next_state, memory, networks, batchLocals,
                   result, n_resets, n_env_steps, n_nonterminal, storeHistory,
                   syncHistory, episodeHistory, n_batch_train, select_log, chain_expect>>

\* Lines 144-152.
GameStep ==
    /\ pc = "step"
    /\ \E r \in Rewards, d \in BOOLEAN, o \in Observations :
         /\ reward' = r
         /\ done' = d
         /\ total_reward' = total_reward + r
         /\ next_state' = IF d THEN None ELSE o
         /\ ep_sum' = ep_sum + r
         /\ ep_sums' = IF d THEN Append(ep_sums, ep_sum + r) ELSE ep_sums
         /\ n_nonterminal' = IF d THEN n_nonterminal ELSE n_nonterminal + 1
    /\ n_env_steps' = n_env_steps + 1
    /\ pc' = "store"
    /\ UNCHANGED <<episodes, steps, record_rewards, state, action, memory,
                   networks, selectLocals, batchLocals, result, n_resets,
                   n_selects, storeHistory, syncHistory, n_batch_train, select_log, chain_expect>>

ShouldStoreAlways(d) == TRUE

EpisodeOverAlways(d) == TRUE

\* Line 166, "if done:": whether the step ends the episode with a batch_train.
EpisodeOver(d) == d

\* Line 163: whether the step's transition goes into the replay memory.
ShouldStore(d) == ~d

\* Lines 163-166.
StoreStep ==
    /\ pc = "store"
    /\ IF ShouldStore(done)
       THEN /\ memory' = storeExperience(memory,
                            Experience(state, action, reward, next_state, done))
            /\ n_stored' = n_stored + 1
            /\ memory_ids' = storeExperience(memory_ids, n_stored + 1)
            /\ memory_eps' = storeExperience(memory_eps, episodes)
            /\ chain_expect' = next_state
       ELSE UNCHANGED <<memory, storeHistory, chain_expect>>
    /\ pc' = IF EpisodeOver(done) THEN "train" ELSE "advance"
    /\ UNCHANGED <<trainLocals, networks, selectLocals, batchLocals,
                   result, envHistory, syncHistory, episodeHistory, n_batch_train, select_log>>

TooFewNever(n) == FALSE

\* Line 87: not enough experiences for batch training.
TooFew(n) == n < batch_size

\* Lines 87-89: batch_train returns at once.
BatchTrainSkip ==
    /\ pc = "train"
    /\ TooFew(number_of_experiences(memory))
    /\ pc' = "record"
    /\ UNCHANGED <<trainLocals, memory, networks, selectLocals,
                   batchLocals, result, envHistory, storeHistory, syncHistory,
                   episodeHistory, select_log, chain_expect>>
    /\ n_batch_train' = n_batch_train + 1

\* Lines 92-119: sample a batch and compute the loss.
BatchTrainLoss ==
    /\ pc = "train"
    /\ ~TooFew(number_of_experiences(memory))
    /\ \E b \in selectBatch(memory, batch_size) :
         /\ batch_data' = b
         /\ Q_t_values' = QtValues(b, target_network)
         /\ expected_Q_values' = ExpectedQValues(b, primary_network, target_network)
         /\ loss' = MSELoss(QtValues(b, target_network),
                            ExpectedQValues(b, primary_network, target_network))
    /\ bt_calls' = bt_calls + 1
    /\ pc' = "zero_grad"
    /\ UNCHANGED <<trainLocals, memory, primary_network, target_network,
                   opt_steps, grads, selectLocals, result, envHistory, storeHistory,
                   syncHistory, episodeHistory, select_log, chain_expect>>
    /\ n_batch_train' = n_batch_train + 1

\* A zero_grad() that leaves the accumulated gradients in place.
ZeroGradKeeping(g) == g

\* Line 122, optimizer.zero_grad(), on the accumulated gradients g.
ZeroGrad(g) == {}

\* Line 125, loss.backward(), for the loss of batch_train call c.
Backward(g, c) == g \cup {c}

OptimizerResultBoth(primary, target) ==
    { <<p, p>> : p \in ParamSpace }

\* What optimizer.step() leaves in the two networks: RMSprop was built on
\* primary_network.parameters() (line 51), so it writes the primary only.  The
\* new values are the optimizer's business: any parameter set.
OptimizerResult(primary, target) ==
    { <<p, target>> : p \in ParamSpace }

\* Lines 122-128, and the return of batch_train.
GradientStep ==
    /\ pc = "zero_grad"
    /\ grads' = Backward(ZeroGrad(grads), bt_calls)
    /\ \E nets \in OptimizerResult(primary_network, target_network) :
         /\ primary_network' = nets[1]
         /\ target_network' = nets[2]
    /\ opt_steps' = opt_steps + 1
    /\ batch_data' = <<>> /\ Q_t_values' = <<>> /\ expected_Q_values' = <<>>
    /\ loss' = NoLoss
    /\ pc' = "record"
    /\ UNCHANGED <<trainLocals, memory, bt_calls, selectLocals, result,
                   envHistory, storeHistory, syncHistory, episodeHistory, n_batch_train, select_log, chain_expect>>

OuterBreakNever(s) == FALSE

\* Lines 185-186: the test that leaves the episode loop.
OuterBreak(s) == s = num_steps

KeepAccumulator(t) == t

\* Line 170: the accumulator after an episode is recorded.
AfterRecord(t) == 0

\* Lines 169-171, then lines 185-188.
RecordEpisode ==
    /\ pc = "record"
    /\ record_rewards' = Append(record_rewards, total_reward)
    /\ total_reward' = AfterRecord(total_reward)
    /\ IF OuterBreak(steps)
       THEN /\ result' = Append(record_rewards, total_reward)
            /\ pc' = "returned"
       ELSE /\ UNCHANGED result
            /\ pc' = "for"
    /\ UNCHANGED <<episodes, steps, state, action, reward, done, next_state,
                   memory, networks, selectLocals, batchLocals, envHistory,
                   storeHistory, syncHistory, episodeHistory, n_batch_train, select_log, chain_expect>>

StateAfterStepStale(s, ns) == s

\* Line 174, state = next_state.
StateAfterStep(s, ns) == ns

\* Lines 174-179.
Advance ==
    /\ pc = "advance"
    /\ state' = StateAfterStep(state, next_state)
    /\ IF steps % target_update = 0
       THEN /\ target_network' = LoadStateDict(target_network, primary_network)
            /\ sync_steps' = sync_steps \cup {steps}
            /\ synced_params' = primary_network
            /\ synced_opt' = opt_steps
       ELSE UNCHANGED <<target_network, syncHistory>>
    /\ pc' = "chk_inner"
    /\ UNCHANGED <<episodes, steps, total_reward, record_rewards, action, reward,
                   done, next_state, memory, primary_network, opt_steps,
                   grads, bt_calls, selectLocals, batchLocals, result, envHistory,
                   storeHistory, episodeHistory, n_batch_train, select_log, chain_expect>>

InnerBreakNever(s) == FALSE

\* Lines 181-183: the test that leaves the step loop.
InnerBreak(s) == s = num_steps

\* Lines 181-183, then lines 185-188 when the step loop is left.
CheckInner ==
    /\ pc = "chk_inner"
    /\ IF InnerBreak(steps)
       THEN IF OuterBreak(steps)
            THEN result' = record_rewards /\ pc' = "returned"
            ELSE UNCHANGED result /\ pc' = "for"
       ELSE UNCHANGED result /\ pc' = "inc"
    /\ UNCHANGED <<trainLocals, memory, networks, selectLocals, batchLocals,
                   envHistory, storeHistory, syncHistory, episodeHistory, n_batch_train, select_log, chain_expect>>

Next ==
    \/ ForEpisode \/ ForExhausted \/ IncSteps \/ SelectDraw \/ SelectReturn
    \/ GameStep
    \/ StoreStep \/ BatchTrainSkip \/ BatchTrainLoss \/ GradientStep
    \/ RecordEpisode \/ Advance \/ CheckInner

Spec == Init /\ [][Next]_vars

\* train() runs on one thread and every call it makes returns: as long as a
\* next statement exists, it is executed.
FairSpec == Spec /\ WF_vars(Next)

\* ==================================================================
\* Properties
\* ==================================================================
Min(a, b) == IF a < b THEN a ELSE b

\* eps_start + (eps_end - eps_start) * min(s / eps_decay, 1), times
\* EPS_UNIT * eps_decay.
ClampedEpsilon(s) == eps_start * eps_decay + (eps_end - eps_start) * Min(s, eps_decay)

\* The Double-Q target of one transition e, times DISCOUNT_DEN: reward plus
\* discount times the target's value at the primary's best next action.
DoubleQTarget(e, primary, target) ==
    LET nq == Forward(primary, e.next_state)
        best == CHOOSE a \in Actions :
                    /\ \A b \in Actions : nq[b] <= nq[a]
                    /\ \A b \in Actions : b < a => nq[b] < nq[a]
    IN  DISCOUNT_DEN * e.reward + DISCOUNT_NUM * Forward(target, e.next_state)[best]

\* Positions of train() at which an episode is running.
InEpisode == pc \notin {"for", "returned"}

\* Positions of train() between a terminal game.step and the recording of
\* the episode it ended.
EpisodeEnding == done /\ pc \in {"store", "train", "zero_grad", "record"}

\* C1: the epsilon select_action uses for step count s is
\* eps_start + (eps_end - eps_start) * min(s / eps_decay, 1); it equals
\* eps_end from s = eps_decay on and never leaves [eps_end, eps_start].
C1_EpsilonClamped ==
    pc = "select_ret" =>
        /\ epsilon = ClampedEpsilon(steps)
        /\ eps_end * eps_decay <= epsilon
        /\ epsilon <= eps_start * eps_decay

\* C2: every Double-Q target batch_train computes belongs to one sample and
\* is that sample's rewards[i] + discount * Q_target(next_states[i]) at the
\* primary's best action for next_states[i], whatever the other samples of the
\* batch are (the entry at row i, column j is read as sample i's target, or
\* throughout as sample j's).
C2_OneTargetPerSample ==
    pc = "zero_grad" =>
        LET y(i) == DoubleQTarget(batch_data[i], primary_network, target_network)
            E == expected_Q_values
        IN  \/ \A i \in DOMAIN E : \A j \in DOMAIN E[i] : E[i][j] = y(i)
            \/ \A i \in DOMAIN E : \A j \in DOMAIN E[i] : E[i][j] = y(j)

\* C3: the loss is the mean over the B samples of
\* (Q_target(states[i])[actions[i]] - y[i])^2, and every entry of the
\* current-value estimate is the target network's value for one sample's state
\* at that same sample's action (the entry at row i, column j is read as
\* sample i's, or throughout as sample j's).
C3_LossPairsOwnSample ==
    pc = "zero_grad" =>
        LET B == Len(batch_data)
            q(i) == Forward(target_network, batch_data[i].state)[batch_data[i].action]
            y(i) == DoubleQTarget(batch_data[i], primary_network, target_network)
            own(i) == (DISCOUNT_DEN * q(i) - y(i)) * (DISCOUNT_DEN * q(i) - y(i))
            Q == Q_t_values
        IN  /\ \/ \A i \in DOMAIN Q : \A j \in DOMAIN Q[i] : Q[i][j] = q(i)
               \/ \A i \in DOMAIN Q : \A j \in DOMAIN Q[i] : Q[i][j] = q(j)
            /\ loss.sum * B = SumTo([i \in 1 .. B |-> own(i)], B) * loss.count

\* C4: a transition is stored at a step iff the step is non-terminal: no stored
\* transition is terminal or lacks its next_state, and the insertions made so
\* far are as many as the non-terminal steps taken so far (the step whose
\* transition is about to be stored counts once the store is done).
C4_StoredIffNonTerminal ==
    /\ \A k \in DOMAIN memory :
         /\ memory[k].done = FALSE
         /\ memory[k].next_state \in Observations
    /\ n_stored = n_nonterminal - (IF pc = "store" /\ ~done THEN 1 ELSE 0)

C4_Witness ==
    /\ pc = "record"
    /\ done
    /\ n_env_steps = 3
    /\ n_nonterminal = 2
    /\ n_stored = 2
    /\ Len(memory) = 2

\* C5: every step count that is a multiple of target_update has had its
\* synchronization by the time the next step begins or train returns.
C5_SyncAtEveryMultiple ==
    pc \in {"inc", "for", "returned"} =>
        \A m \in 1 .. steps : m % target_update = 0 => m \in sync_steps

\* C6: steps never exceeds num_steps and the episodes begun never exceed
\* max_episodes; once the step that made steps = num_steps has been played,
\* no action is selected, no game step or reset is issued and no episode begins.
C6_StopsAtNumSteps ==
    /\ [](steps <= num_steps /\ episodes <= max_episodes)
    /\ [][(steps = num_steps /\ n_env_steps = num_steps)
            => UNCHANGED <<n_selects, n_env_steps, n_resets, episodes, steps>>]_vars

C6_Witness ==
    /\ pc = "returned"
    /\ steps = num_steps
    /\ done
    /\ episodes < max_episodes

\* C7: the recorded rewards are, in order, the reward sums of the episodes
\* that reached a terminal step, the terminal step's reward included; the
\* accumulator holds the running episode's rewards only, and is zero when an
\* episode begins; train returns the recorded rewards.
C7_RewardPerEpisode ==
    /\ IF EpisodeEnding
       THEN ep_sums = Append(record_rewards, total_reward)
       ELSE ep_sums = record_rewards
    /\ InEpisode => total_reward = ep_sum
    /\ pc = "for" => total_reward = 0
    /\ pc = "returned" => result = ep_sums

C7_Witness ==
    /\ pc = "returned"
    /\ result = <<2, 1>>
    /\ n_env_steps = 4

\* C8: batch_train triggered with fewer than batch_size stored transitions
\* returns without sampling, without a gradient step, and leaves both
\* networks, the optimizer and the memory as they were.
C8_SkipsWhenTooFew ==
    [][(pc = "train" /\ number_of_experiences(memory) < batch_size)
        => /\ pc' = "record"
           /\ UNCHANGED <<primary_network, target_network, opt_steps, grads,
                          memory, bt_calls, batch_data>>]_vars

C8_Witness ==
    /\ pc = "record"
    /\ number_of_experiences(memory) = 1
    /\ number_of_experiences(memory) < batch_size
    /\ bt_calls = 0
    /\ opt_steps = 0

\* C9: the target's parameters are the primary's as of the latest
\* synchronization (of construction before the first one); gradient steps
\* never move them.
C9_TargetIsLastSync ==
    target_network = synced_params

C9_Witness ==
    /\ sync_steps # {}
    /\ opt_steps > 0
    /\ primary_network # target_network

StatementsAhead ==
    CASE pc = "returned" -> 0
      [] pc = "inc" -> 1
      [] pc = "chk_inner" -> 2
      [] pc = "advance" -> 3
      [] pc = "for" -> 4
      [] pc = "record" -> 5
      [] pc = "zero_grad" -> 6
      [] pc = "train" -> 7
      [] pc = "store" -> 8
      [] pc = "step" -> 9
      [] pc = "select_ret" -> 10
      [] pc = "select" -> 11

\* A measure of the work train() can still do: the steps left up to num_steps,
\* each worth more than one pass, plus what is left of the running pass.
WorkLeft == (num_steps - steps) * (11 + 1) + StatementsAhead

\* C11: every run of train returns, whatever the game does, also when no
\* episode ever reaches a terminal step: train is never stuck before its
\* return, every statement it executes lowers a natural-number measure of the
\* work left, and at most num_steps game steps are played and at most
\* max_episodes episodes begun.
C11_Terminates ==
    /\ [](pc = "returned" \/ ENABLED Next)
    /\ [](WorkLeft >= 0)
    /\ [][WorkLeft' < WorkLeft]_vars
    /\ [](n_env_steps <= num_steps /\ n_resets <= max_episodes)

\* C11, as a liveness property of FairSpec: train eventually returns.
C11_EventuallyReturns == <>(pc = "returned")

C11_Witness ==
    /\ pc = "returned"
    /\ n_nonterminal = num_steps
    /\ n_env_steps = num_steps
    /\ ep_sums = <<>>
    /\ result = <<>>

\* C12: a synchronization leaves the target equal to the primary, and one
\* that follows another (the one of construction included) with no gradient
\* step in between leaves the target's parameters, and so its outputs on
\* every input, as the earlier one left them.
C12_SyncIdempotent ==
    [][(pc = "advance" /\ steps % target_update = 0)
        => /\ target_network' = primary_network
           /\ primary_network' = primary_network
           /\ opt_steps = synced_opt
                => /\ target_network' = target_network
                   /\ \A s \in Observations :
                        Forward(target_network', s) = Forward(target_network, s)]_vars

C12_Witness ==
    /\ pc = "chk_inner"
    /\ Cardinality(sync_steps) >= 2
    /\ steps \in sync_steps
    /\ opt_steps = 0
    /\ target_network = primary_network

\* C13: the store is a first-in-first-out ring buffer of capacity memory_size:
\* after m insertions it counts min(m, memory_size) transitions, and they are
\* the most recent insertions, oldest first: insertion m is the last one held,
\* and once m exceeds the capacity none of the oldest m - memory_size is held.
C13_RingBuffer ==
    /\ number_of_experiences(memory) = Min(n_stored, memory_size)
    /\ Len(memory_ids) = Len(memory)
    /\ \A i \in DOMAIN memory_ids :
         memory_ids[i] = n_stored - Min(n_stored, memory_size) + i

C13_Witness ==
    /\ n_stored = memory_size + 2
    /\ number_of_experiences(memory) = memory_size
    /\ memory_ids[1] = 3
    /\ memory_ids[memory_size] = n_stored

\* C14: batch_train is called once at every terminal step and at no other
\* step (the calls made are as many as the terminal steps taken, less the one
\* whose call is still ahead); the primary network changes only inside the
\* batch_train of a terminal step; and the gradient steps are at most as many
\* as the episodes that reached a terminal step.
C14_TrainsAtTerminalSteps ==
    /\ [](n_batch_train = (n_env_steps - n_nonterminal)
                            - (IF done /\ pc \in {"store", "train"} THEN 1 ELSE 0))
    /\ [][n_batch_train' # n_batch_train => done /\ pc = "train"]_vars
    /\ [][primary_network' # primary_network => done /\ pc = "zero_grad"]_vars
    /\ [](opt_steps <= n_batch_train /\ opt_steps <= Len(ep_sums))

C14_Witness ==
    /\ pc = "record"
    /\ done
    /\ n_env_steps = 4
    /\ n_nonterminal = 2
    /\ n_batch_train = 2
    /\ opt_steps = 1
    /\ Len(ep_sums) = 2

\* C15: within a step the counter is incremented first, then select_action is
\* called with the incremented count and the current state, then the
\* environment is advanced: the count passed for the k-th environment step is
\* k, the first being 1, and each increment is followed by exactly one
\* environment step before the next increment.
C15_StepOrder ==
    /\ \A k \in DOMAIN select_log : select_log[k] = k
    /\ Len(select_log) = n_env_steps + (IF pc \in {"select_ret", "step"} THEN 1 ELSE 0)
    /\ n_selects = n_env_steps + (IF pc = "step" THEN 1 ELSE 0)
    /\ steps = n_env_steps + (IF pc \in {"select", "select_ret", "step"} THEN 1 ELSE 0)
    /\ pc = "select_ret" => sel_steps = n_env_steps + 1 /\ sel_state = state

C15_Witness ==
    /\ pc = "store"
    /\ n_env_steps = 3
    /\ steps = 3
    /\ select_log = <<1, 2, 3>>

\* C16: in every gradient step the loss is computed first, the accumulated
\* gradients are then cleared just before the backward pass, and the optimizer
\* update follows: every batch_train call that computed a loss has had its
\* update by the time it returns, and the gradients the update applied are
\* those of that call's loss alone, nothing of an earlier call among them.
C16_GradientsOfThisCallOnly ==
    /\ pc = "zero_grad" => /\ loss # NoLoss
                           /\ opt_steps = bt_calls - 1
                           /\ grads \subseteq {bt_calls - 1}
    /\ pc # "zero_grad" => /\ loss = NoLoss
                           /\ opt_steps = bt_calls
                           /\ grads = IF opt_steps > 0 THEN {bt_calls} ELSE {}

C16_Witness ==
    /\ pc = "record"
    /\ opt_steps = 2
    /\ bt_calls = 2
    /\ grads = {2}

\* C17: the transitions stored within one episode form a chain: the first
\* starts from the observation taken right after the reset, each later one
\* starts from the next_state of the one before it; and the environment is
\* reset once per episode, before the episode's first step and not again
\* until a terminal step has ended the episode.
C17_EpisodeChain ==
    /\ pc = "store" => state = chain_expect
    /\ \A i \in 1 .. (Len(memory) - 1) :
         memory_eps[i] = memory_eps[i + 1] => memory[i + 1].state = memory[i].next_state
    /\ n_resets = episodes
    /\ pc = "for" => n_resets = Len(ep_sums)
    /\ InEpisode => n_resets = Len(ep_sums) + (IF EpisodeEnding THEN 0 ELSE 1)

C17_Witness ==
    /\ pc = "advance"
    /\ episodes = 2
    /\ n_resets = 2
    /\ Len(memory) = 2
    /\ memory_eps = <<2, 2>>
    /\ memory[2].state = memory[1].next_state
    /\ memory[2].next_state # memory[2].state
    /\ memory[1].state # memory[1].next_state

====
